---------------------------- MODULE Spec2Model ----------------------------
(***************************************************************************)
(* Order-wallet transaction engine and provider abstraction layer of the   *)
(* flywell logistics backend.                                              *)
(*                                                                         *)
(* Persistence is a document store accessed through Mongoose documents: a  *)
(* find returns an in-memory snapshot, and save() writes only the paths    *)
(* modified on that snapshot ($set for scalar paths, $push for elements    *)
(* pushed onto an array).  Every await in a service method is a point at   *)
(* which other requests may run, so each method is split into one action   *)
(* per database round trip.                                                *)
(*                                                                         *)
(* Money is in whole rupees and weights in whole kilograms.                *)
(***************************************************************************)
EXTENDS Integers, Sequences, FiniteSets, TLC

VARIABLES
  wallet,     \* the Wallet document of the user: [balance, transactions]
  orders,     \* Order collection: order id -> document (exists = FALSE: no document)
  co,         \* createOrder requests, one per slot; the slot number is the order's _id
  ship,       \* per order: the fire-and-forget _createShipmentWithPartner task
  wh,         \* updateOrderStatus (webhook) requests
  pk,         \* createPickupRequest request
  tr,         \* response of the last trackOrder request
  wc,         \* WalletService.addMoney / deductMoney requests (ledger specification)
  ms,         \* mapStatus evaluation (status-mapping specification)
  rq,         \* calculateRate evaluations (rate-quote specification)
  bk,         \* adapter createShipment invocation (booking specification)
  tk,         \* an adapter's token cache and its getAccessToken callers
  pay         \* a Payment document and the verifyPayment requests for it

vars == <<wallet, orders, co, ship, wh, pk, tr, wc, ms, rq, bk, tk, pay>>

---------------------------------------------------------------------------
(* Bounds of the model *)

MaxOrders == 2          \* createOrder requests (and so orders) per behaviour
MaxWebhooks == 2        \* updateOrderStatus requests per behaviour
MaxWeight == 2          \* package weights 1..MaxWeight kg
InitialBalance == 100   \* rupees credited to the wallet before the first order
MaxWalletCalls == 4     \* addMoney/deductMoney requests in the ledger specification
MaxAmount == 2          \* largest amount of an addMoney/deductMoney request
MaxRateWeight == 20     \* largest weight (kg) of a rate request
MaxRateCalls == 3       \* rate requests repeated with the same inputs
MaxTokenCallers == 2    \* concurrent getAccessToken callers of one adapter
MaxTicks == 3             \* clock advances followed in a run of the token cache
MaxVerifyCalls == 3     \* verifyPayment requests for one payment

---------------------------------------------------------------------------
(* config/constants.js *)

ORDER_STATUS ==
  {"pending", "confirmed", "picked_up", "in_transit", "out_for_delivery",
   "delivered", "cancelled", "rto"}

DELIVERY_PARTNERS == {"nimbuspost", "overseas_logistic"}

\* providers/index.js: the registry holds the Delhivery adapter only
PROVIDERS == {"delhivery"}

hasProvider(partnerName) == partnerName \in PROVIDERS

\* partner identifiers a request may carry: one of DELIVERY_PARTNERS, and one
\* that the enum rejects
PartnerInputs == {"nimbuspost", "delhivery"}

HTTP_BAD_REQUEST == 400
HTTP_NOT_FOUND == 404
HTTP_INTERNAL_SERVER_ERROR == 500
HTTP_NOT_IMPLEMENTED == 501

NULL == "null"

---------------------------------------------------------------------------
(* Wallet model: walletSchema.methods.addTransaction followed by save() *)

Transaction(type, amount, orderId) ==
  [type |-> type, amount |-> amount, orderId |-> orderId]

\* addTransaction runs on the snapshot `doc` read earlier; save() then sends
\* $set balance (computed from the snapshot) and $push of the new element,
\* which the store applies to the current document `stored`.
SaveTransaction(stored, doc, type, amount, orderId) ==
  [balance |-> IF type = "credit" THEN doc.balance + amount
               ELSE doc.balance - amount,
   transactions |-> Append(stored.transactions, Transaction(type, amount, orderId))]

\* the guard of deductMoney (wallet.service.js) and of addTransaction
InsufficientBalance_never(balance, amount) == FALSE

\* the balance check of deductMoney (wallet.service.js line 92)
InsufficientBalance(balance, amount) == balance < amount

RECURSIVE SumOf(_, _)
SumOf(txs, type) ==
  IF txs = <<>> THEN 0
  ELSE (IF Head(txs).type = type THEN Head(txs).amount ELSE 0) + SumOf(Tail(txs), type)

---------------------------------------------------------------------------
(* Rate quoting *)

FallbackBaseRate == 50
FallbackPerKg == 10

ProviderError(code) == [ok |-> FALSE, code |-> code, totalAmount |-> 0,
                        baseRate |-> 0, additionalCharges |-> 0, gst |-> 0, dph |-> 0]
ProviderQuote(base, add, gst, dph, total) ==
  [ok |-> TRUE, code |-> 0, totalAmount |-> total,
   baseRate |-> base, additionalCharges |-> add, gst |-> gst, dph |-> dph]

\* what a registered adapter's calculateRate may answer: an error, or a quote
\* with or without an explicit totalAmount
AdapterRateOutcomes ==
  {ProviderError(HTTP_INTERNAL_SERVER_ERROR), ProviderError(HTTP_BAD_REQUEST),
   ProviderQuote(40, 5, 8, 0, 0), ProviderQuote(40, 5, 8, 2, 70)}

\* ThirdPartyAPIService.calculateRate
ThirdPartyRateOutcomes(partner) ==
  IF partner \notin DELIVERY_PARTNERS THEN {ProviderError(HTTP_BAD_REQUEST)}
  ELSE IF ~hasProvider(partner) THEN {ProviderError(HTTP_NOT_IMPLEMENTED)}
  ELSE AdapterRateOutcomes

FallbackPricing_by_error(weight, resp) ==
  [thrown |-> 0, baseRate |-> FallbackBaseRate,
   additionalCharges |-> weight * FallbackPerKg,
   totalAmount |-> FallbackBaseRate + weight * FallbackPerKg + resp.code,
   fallback |-> TRUE]

\* the catch branch of OrderService.calculateRate
FallbackPricing(weight, resp) ==
  [thrown |-> 0, baseRate |-> FallbackBaseRate,
   additionalCharges |-> weight * FallbackPerKg,
   totalAmount |-> FallbackBaseRate + weight * FallbackPerKg,
   fallback |-> TRUE]

\* the try branch of OrderService.calculateRate (x || y on numbers: 0 is falsy)
QuotedPricing(resp) ==
  [thrown |-> 0, baseRate |-> resp.baseRate,
   additionalCharges |-> resp.additionalCharges,
   totalAmount |-> IF resp.totalAmount # 0 THEN resp.totalAmount
                   ELSE resp.baseRate + resp.additionalCharges + resp.gst + resp.dph,
   fallback |-> FALSE]

NoPricing ==
  [thrown |-> 0, baseRate |-> 0, additionalCharges |-> 0, totalAmount |-> 0,
   fallback |-> FALSE]

\* a throw of calculateRate with the given status code
RateThrown(code) == [NoPricing EXCEPT !.thrown = code]

calculateRate_rethrow(partner, weight, resp) ==
  IF partner \notin DELIVERY_PARTNERS THEN RateThrown(HTTP_BAD_REQUEST)
  ELSE IF resp.ok THEN QuotedPricing(resp)
  ELSE RateThrown(resp.code)

\* OrderService.calculateRate: the partner check throws; inside the try, the
\* answer of thirdPartyAPIService.calculateRate is normalised, and any error
\* it threw is replaced by the fallback
calculateRate(partner, weight, resp) ==
  IF partner \notin DELIVERY_PARTNERS THEN RateThrown(HTTP_BAD_REQUEST)
  ELSE IF resp.ok THEN QuotedPricing(resp)
  ELSE FallbackPricing(weight, resp)

---------------------------------------------------------------------------
(* Order documents *)

OrderIds == 1..MaxOrders

\* package weights of the requests, kg
Weights == 1..MaxWeight

NoOrder ==
  [exists |-> FALSE, partner |-> NULL, weight |-> 0, totalAmount |-> 0,
   status |-> NULL, payStatus |-> NULL, paidAt |-> FALSE, transactionId |-> NULL,
   awb |-> NULL, trackingUrl |-> NULL, statusHistory |-> <<>>,
   fallbackNote |-> FALSE]

\* the document Order.create persists in createOrder: of the quote it is
\* given baseRate, additionalCharges, totalAmount and currency, and no
\* metadata, so the quote's note 'Fallback calculation used' is not stored
\* (fallbackNote: the stored metadata says the quote was a fallback)
NewOrder(partner, weight, pricing) ==
  [exists |-> TRUE, partner |-> partner, weight |-> weight,
   totalAmount |-> pricing.totalAmount,
   status |-> "pending", payStatus |-> "pending", paidAt |-> FALSE,
   transactionId |-> NULL, awb |-> NULL, trackingUrl |-> NULL,
   statusHistory |-> <<>>, fallbackNote |-> FALSE]


---------------------------------------------------------------------------
(* OrderService.createOrder *)

IdleCo ==
  [pc |-> "idle", partner |-> NULL, weight |-> 0, pricing |-> NoPricing,
   persisted |-> FALSE, wbal |-> 0, err |-> 0, kind |-> NULL,
   required |-> 0, available |-> 0]

\* the request after it threw: the error it carries
FailCo(r, code, kind) ==
  [IdleCo EXCEPT !.pc = "failed", !.err = code, !.kind = kind,
                 !.persisted = r.persisted]

CreateOrderQuote_persist_before_check(c, partner, weight) ==
  /\ co[c].pc = "idle"
  /\ IF c = 1 THEN TRUE ELSE co[c - 1].pc # "idle"
  /\ \E resp \in ThirdPartyRateOutcomes(partner) :
     LET r == [co[c] EXCEPT !.partner = partner, !.weight = weight]
         pricing == calculateRate(partner, weight, resp)
     IN /\ co' = [co EXCEPT ![c] =
             IF pricing.thrown # 0
               THEN FailCo(r, pricing.thrown, "InvalidPartner")
             ELSE IF wallet.balance < pricing.totalAmount
               THEN [FailCo(r, HTTP_BAD_REQUEST, "InsufficientFunds") EXCEPT
                       !.required = pricing.totalAmount,
                       !.available = wallet.balance]
             ELSE [r EXCEPT !.pc = "debit", !.pricing = pricing, !.persisted = TRUE]]
        /\ orders' = IF pricing.thrown # 0 THEN orders
                     ELSE [orders EXCEPT ![c] = NewOrder(partner, weight, pricing)]
  /\ UNCHANGED <<wallet, ship, wh, pk, tr, wc, ms, rq, bk, tk, pay>>

\* calculateRate, then getBalance and the balance check (lines 100-115)
CreateOrderQuote(c, partner, weight) ==
  /\ co[c].pc = "idle"
  /\ IF c = 1 THEN TRUE ELSE co[c - 1].pc # "idle"
  /\ \E resp \in ThirdPartyRateOutcomes(partner) :
     LET r == [co[c] EXCEPT !.partner = partner, !.weight = weight]
         pricing == calculateRate(partner, weight, resp)
     IN co' = [co EXCEPT ![c] =
          IF pricing.thrown # 0
            THEN FailCo(r, pricing.thrown,
                        IF partner \notin DELIVERY_PARTNERS THEN "InvalidPartner"
                        ELSE "RateFailed")
          ELSE IF wallet.balance < pricing.totalAmount
            THEN [FailCo(r, HTTP_BAD_REQUEST, "InsufficientFunds") EXCEPT
                    !.required = pricing.totalAmount,
                    !.available = wallet.balance]
          ELSE [r EXCEPT !.pc = "create", !.pricing = pricing]]
  /\ UNCHANGED <<wallet, orders, ship, wh, pk, tr, wc, ms, rq, bk, tk, pay>>

\* Order.create (lines 124-144)
CreateOrderPersist(c) ==
  /\ co[c].pc = "create"
  /\ orders' = [orders EXCEPT ![c] = NewOrder(co[c].partner, co[c].weight, co[c].pricing)]
  /\ co' = [co EXCEPT ![c].pc = "debit", ![c].persisted = TRUE]
  /\ UNCHANGED <<wallet, ship, wh, pk, tr, wc, ms, rq, bk, tk, pay>>

\* walletService.deductMoney up to its wallet read: amount check, findOne,
\* balance check (wallet.service.js lines 85-94); a throw lands in the catch
\* of createOrder
CreateOrderDebitRead(c) ==
  /\ co[c].pc = "debit"
  /\ co' = [co EXCEPT ![c] =
       IF co[c].pricing.totalAmount <= 0
         THEN [@ EXCEPT !.pc = "rollback", !.err = HTTP_BAD_REQUEST, !.kind = "InvalidAmount"]
       ELSE IF InsufficientBalance(wallet.balance, co[c].pricing.totalAmount)
         THEN [@ EXCEPT !.pc = "rollback", !.err = HTTP_BAD_REQUEST, !.kind = "InsufficientFunds"]
       ELSE [@ EXCEPT !.pc = "debit_save", !.wbal = wallet.balance]]
  /\ UNCHANGED <<wallet, orders, ship, wh, pk, tr, wc, ms, rq, bk, tk, pay>>

\* wallet.addTransaction('debit', ...) and its save (wallet.service.js lines 108-115)
CreateOrderDebitSave(c) ==
  /\ co[c].pc = "debit_save"
  /\ wallet' = SaveTransaction(wallet, [balance |-> co[c].wbal], "debit",
                               co[c].pricing.totalAmount, c)
  /\ co' = [co EXCEPT ![c].pc = "mark_paid"]
  /\ UNCHANGED <<orders, ship, wh, pk, tr, wc, ms, rq, bk, tk, pay>>

MarkPaid_stays_pending(o) == o

\* lines 162-164: transaction is the plain object built by deductMoney, which
\* has no _id, so transactionId is assigned undefined
MarkPaid(o) == [o EXCEPT !.payStatus = "completed", !.paidAt = TRUE,
                         !.transactionId = NULL]

\* Order.findByIdAndDelete
DeleteOrder_keep(os, id) == os

DeleteOrder(os, id) == [os EXCEPT ![id] = NoOrder]

\* the call at line 168 starts the shipment request before createOrder returns
StartShipment(s) == [s EXCEPT !.state = "in_flight", !.calls = @ + 1]

\* order.save() after the debit (line 165), then the shipment call and the
\* response; a failed save throws into the catch of createOrder
CreateOrderMarkPaid(c, saved) ==
  /\ co[c].pc = "mark_paid"
  /\ IF saved
       THEN /\ orders' = [orders EXCEPT ![c] = MarkPaid(@)]
            /\ ship' = [ship EXCEPT ![c] = StartShipment(@)]
            /\ co' = [co EXCEPT ![c].pc = "done", ![c].wbal = 0]
       ELSE /\ co' = [co EXCEPT ![c].pc = "rollback",
                                ![c].err = HTTP_INTERNAL_SERVER_ERROR,
                                ![c].kind = "SaveFailed"]
            /\ UNCHANGED <<orders, ship>>
  /\ UNCHANGED <<wallet, wh, pk, tr, wc, ms, rq, bk, tk, pay>>

\* the catch of createOrder (lines 186-190): delete the order, rethrow
CreateOrderRollback(c) ==
  /\ co[c].pc = "rollback"
  /\ orders' = DeleteOrder(orders, c)
  /\ co' = [co EXCEPT ![c] = FailCo(@, @.err, @.kind)]
  /\ UNCHANGED <<wallet, ship, wh, pk, tr, wc, ms, rq, bk, tk, pay>>

---------------------------------------------------------------------------
(* OrderService._createShipmentWithPartner *)

ShipFailure(code) == [ok |-> FALSE, code |-> code, awb |-> NULL]
ShipSuccess(awb) == [ok |-> TRUE, code |-> 0, awb |-> awb]

\* what a registered adapter's createShipment may answer
AdapterShipOutcomes ==
  {ShipFailure(HTTP_INTERNAL_SERVER_ERROR), ShipFailure(HTTP_BAD_REQUEST),
   ShipSuccess("AWB-P"), ShipSuccess(NULL)}

\* ThirdPartyAPIService.createShipment
ThirdPartyShipOutcomes(partner) ==
  IF partner \notin DELIVERY_PARTNERS THEN {ShipFailure(HTTP_BAD_REQUEST)}
  ELSE IF ~hasProvider(partner) THEN {ShipFailure(HTTP_NOT_IMPLEMENTED)}
  ELSE AdapterShipOutcomes

\* lines 213-216 on the document created by createOrder: save() sets awb,
\* trackingUrl and status on the stored order
AttachShipment(o, res) ==
  IF o.exists
    THEN [o EXCEPT !.awb = res.awb,
                   !.trackingUrl = IF res.awb = NULL THEN NULL ELSE "url",
                   !.status = "confirmed"]
    ELSE o

ShipmentSettle_cancels_on_failure(c) ==
  /\ ship[c].state = "in_flight"
  /\ \E res \in ThirdPartyShipOutcomes(co[c].partner) :
       /\ ship' = [ship EXCEPT ![c].state = "settled",
                               ![c].acks = @ + (IF res.ok THEN 1 ELSE 0)]
       /\ orders' = [orders EXCEPT ![c] = IF res.ok THEN AttachShipment(@, res)
                                          ELSE [@ EXCEPT !.status = "cancelled"]]
  /\ UNCHANGED <<wallet, co, wh, pk, tr, wc, ms, rq, bk, tk, pay>>

\* _createShipmentWithPartner: the awaited createShipment, then the order
\* update, or the catch that logs and returns (lines 197-224)
ShipmentSettle(c) ==
  /\ ship[c].state = "in_flight"
  /\ \E res \in ThirdPartyShipOutcomes(co[c].partner) :
       /\ ship' = [ship EXCEPT ![c].state = "settled",
                               ![c].acks = @ + (IF res.ok THEN 1 ELSE 0)]
       /\ orders' = [orders EXCEPT ![c] = IF res.ok THEN AttachShipment(@, res) ELSE @]
  /\ UNCHANGED <<wallet, co, wh, pk, tr, wc, ms, rq, bk, tk, pay>>

\* _createShipmentWithPartner from the point where createShipment is
\* answered by an adapter: a result, with or without an AWB in it, or an
\* error
ShipmentAnswered(c) ==
  /\ ship[c].state = "in_flight"
  /\ \E res \in AdapterShipOutcomes :
       /\ ship' = [ship EXCEPT ![c].state = "settled",
                               ![c].acks = @ + (IF res.ok THEN 1 ELSE 0)]
       /\ orders' = [orders EXCEPT ![c] = IF res.ok THEN AttachShipment(@, res) ELSE @]
  /\ UNCHANGED <<wallet, co, wh, pk, tr, wc, ms, rq, bk, tk, pay>>

---------------------------------------------------------------------------
(* OrderService.updateOrderStatus, reached from WebhookController *)

WebhookIds == 1..MaxWebhooks

\* status strings a webhook may carry; "weird" is outside ORDER_STATUS
WebhookStatuses == {"pending", "delivered", "cancelled", "weird"}

WebhookAwbs == {NULL, "AWB-W"}

\* the trackingData of a request body: its trackingUrl (NULL: none) and,
\* when the payload has a key named statusHistory, the value under it
NoTrackingData == [trackingUrl |-> NULL, keys |-> {}, statusHistory |-> <<>>]

TrackingDataInputs ==
  {NoTrackingData,
   [NoTrackingData EXCEPT !.trackingUrl = "url-T"],
   [NoTrackingData EXCEPT !.keys = {"statusHistory"}]}

IdleWh ==
  [pc |-> "idle", orderId |-> 0, awb |-> NULL, status |-> NULL,
   trackingData |-> NoTrackingData,
   target |-> 0, snap |-> NoOrder, err |-> 0, kind |-> NULL]

\* the request was answered with an error; the record keeps the status it
\* carried
FailWh(status, code, kind) ==
  [IdleWh EXCEPT !.pc = "done", !.status = status, !.err = code, !.kind = kind]

ValidStatus_any(status) == TRUE

\* Object.values(ORDER_STATUS).includes(status) (line 363)
ValidStatus(status) == status \in ORDER_STATUS

\* Order.findById(orderId), else Order.findOne({ awb }); 0 stands for null
FindOrder(os, orderId, awb) ==
  IF orderId # 0
    THEN (IF orderId \in DOMAIN os /\ os[orderId].exists THEN orderId ELSE 0)
    ELSE LET hits == {o \in DOMAIN os : os[o].exists /\ os[o].awb = awb}
         IN IF hits = {} THEN 0 ELSE CHOOSE o \in hits : \A h \in hits : o <= h

ApplyStatusUpdate_cancel_deletes(stored, snap, status, awb, trackingData) ==
  IF status = "cancelled" THEN NoOrder
  ELSE [stored EXCEPT
          !.status = IF status # snap.status THEN status ELSE @,
          !.awb = IF awb # NULL /\ snap.awb = NULL THEN awb ELSE @,
          !.statusHistory =
             Append(snap.statusHistory,
                    [status |-> status, previousStatus |-> snap.status])]

\* lines 367-398 run on the snapshot `snap`; save() sets status when it differs
\* from the snapshot, awb when the snapshot had none, trackingUrl when the
\* payload has one, and the whole metadata, in which the keys of trackingData
\* are spread last and so replace a statusHistory built before them
ApplyStatusUpdate(stored, snap, status, awb, trackingData) ==
  [stored EXCEPT
     !.status = IF status # snap.status THEN status ELSE @,
     !.awb = IF awb # NULL /\ snap.awb = NULL THEN awb ELSE @,
     !.trackingUrl = IF trackingData.trackingUrl # NULL
                       THEN trackingData.trackingUrl ELSE @,
     !.statusHistory =
        IF "statusHistory" \in trackingData.keys
          THEN trackingData.statusHistory
          ELSE Append(snap.statusHistory,
                      [status |-> status, previousStatus |-> snap.status])]

\* the controller's identifier check, the lookup and the status validation
WebhookFind(w, orderId, awb, status, trackingData) ==
  /\ wh[w].pc = "idle"
  /\ IF w = 1 THEN TRUE ELSE wh[w - 1].pc # "idle"
  /\ LET r == [wh[w] EXCEPT !.orderId = orderId, !.awb = awb, !.status = status,
                             !.trackingData = trackingData]
         target == FindOrder(orders, orderId, awb)
     IN wh' = [wh EXCEPT ![w] =
          IF orderId = 0 /\ awb = NULL
            THEN FailWh(status, HTTP_BAD_REQUEST, "MissingIdentifier")
          ELSE IF target = 0
            THEN FailWh(status, HTTP_NOT_FOUND, "OrderNotFound")
          ELSE IF ~ValidStatus(status)
            THEN FailWh(status, HTTP_BAD_REQUEST, "InvalidStatus")
          ELSE [r EXCEPT !.pc = "save", !.target = target, !.snap = orders[target]]]
  /\ UNCHANGED <<wallet, orders, co, ship, pk, tr, wc, ms, rq, bk, tk, pay>>

\* order.save() (line 398); saving a document that was deleted meanwhile
\* writes nothing and raises
WebhookSave(w) ==
  /\ wh[w].pc = "save"
  /\ LET t == wh[w].target
     IN IF orders[t].exists
          THEN /\ orders' = [orders EXCEPT ![t] =
                    ApplyStatusUpdate(@, wh[w].snap, wh[w].status, wh[w].awb,
                                      wh[w].trackingData)]
               /\ wh' = [wh EXCEPT ![w] = [IdleWh EXCEPT !.pc = "done"]]
          ELSE /\ wh' = [wh EXCEPT ![w] =
                    FailWh(wh[w].status, HTTP_INTERNAL_SERVER_ERROR, "SaveFailed")]
               /\ UNCHANGED orders
  /\ UNCHANGED <<wallet, co, ship, pk, tr, wc, ms, rq, bk, tk, pay>>

---------------------------------------------------------------------------
(* PickupRequestService.createPickupRequest *)

IdlePk == [pc |-> "idle", ids |-> {}, err |-> 0]

\* Order.find({ status: { $in: [pending, confirmed] } }) (lines 41-50)
PickupFind ==
  /\ pk.pc = "idle"
  /\ LET ids == {o \in OrderIds :
                   orders[o].exists /\ orders[o].status \in {"pending", "confirmed"}}
     IN pk' = IF ids = {}
                THEN [pk EXCEPT !.pc = "done", !.err = HTTP_BAD_REQUEST]
                ELSE [pk EXCEPT !.pc = "update", !.ids = ids]
  /\ UNCHANGED <<wallet, orders, co, ship, wh, tr, wc, ms, rq, bk, tk, pay>>

\* Order.updateMany({ _id: { $in: ids } }, { status: confirmed }) (lines 74-77)
PickupUpdate ==
  /\ pk.pc = "update"
  /\ orders' = [o \in OrderIds |->
                  IF o \in pk.ids /\ orders[o].exists
                    THEN [orders[o] EXCEPT !.status = "confirmed"]
                    ELSE orders[o]]
  /\ pk' = [IdlePk EXCEPT !.pc = "done"]
  /\ UNCHANGED <<wallet, co, ship, wh, tr, wc, ms, rq, bk, tk, pay>>

---------------------------------------------------------------------------
(* OrderService.trackOrder *)

TrackFailure(code) == [ok |-> FALSE, code |-> code, status |-> NULL]
TrackResult(status) == [ok |-> TRUE, code |-> 0, status |-> status]

\* what a registered adapter's trackShipment may answer
AdapterTrackOutcomes ==
  {TrackFailure(HTTP_INTERNAL_SERVER_ERROR), TrackFailure(HTTP_NOT_FOUND),
   TrackResult("in_transit"), TrackResult("delivered")}

\* ThirdPartyAPIService.trackShipment
ThirdPartyTrackOutcomes(partner) ==
  IF partner \notin DELIVERY_PARTNERS THEN {TrackFailure(HTTP_BAD_REQUEST)}
  ELSE IF ~hasProvider(partner) THEN {TrackFailure(HTTP_NOT_IMPLEMENTED)}
  ELSE AdapterTrackOutcomes

IdleTr == [pc |-> "idle", order |-> 0, snapStatus |-> NULL, message |-> NULL]

TrackMessages == {"AWB not yet generated", "tracked", "Unable to fetch tracking details"}

\* getOrderById and the AWB check (lines 296-305)
TrackOrderRead(o) ==
  /\ tr.pc = "idle"
  /\ tr.message = NULL
  /\ orders[o].exists
  /\ tr' = IF orders[o].awb = NULL
             THEN [IdleTr EXCEPT !.message = "AWB not yet generated"]
             ELSE [pc |-> "await", order |-> o, snapStatus |-> orders[o].status,
                   message |-> NULL]
  /\ UNCHANGED <<wallet, orders, co, ship, wh, pk, wc, ms, rq, bk, tk, pay>>

TrackOrderApply_failure_cancels(res) ==
  LET o == tr.order
  IN /\ orders' = [orders EXCEPT ![o].status =
                     IF res.ok THEN res.status ELSE "cancelled"]
     /\ tr' = [IdleTr EXCEPT
                 !.message = IF res.ok THEN "tracked"
                             ELSE "Unable to fetch tracking details"]

\* lines 307-334 given the answer of trackShipment: the status write and its
\* save (which writes status when it differs from the snapshot), or the catch
\* that swallows the error
TrackOrderApply(res) ==
  LET o == tr.order
  IN /\ IF res.ok /\ res.status # tr.snapStatus /\ orders[o].exists
          THEN orders' = [orders EXCEPT ![o].status = res.status]
          ELSE UNCHANGED orders
     /\ tr' = [IdleTr EXCEPT
                 !.message = IF res.ok THEN "tracked"
                             ELSE "Unable to fetch tracking details"]

\* the awaited thirdPartyAPIService.trackShipment returns or throws
TrackOrderSettle ==
  /\ tr.pc = "await"
  /\ \E res \in ThirdPartyTrackOutcomes(orders[tr.order].partner) :
       TrackOrderApply(res)
  /\ UNCHANGED <<wallet, co, ship, wh, pk, wc, ms, rq, bk, tk, pay>>

\* the same with trackShipment answered by an adapter
TrackOrderAnswered ==
  /\ tr.pc = "await"
  /\ \E res \in AdapterTrackOutcomes : TrackOrderApply(res)
  /\ UNCHANGED <<wallet, co, ship, wh, pk, wc, ms, rq, bk, tk, pay>>

---------------------------------------------------------------------------
(* Order placement: concurrent createOrder requests and their shipment tasks *)

IdleShip == [state |-> "none", calls |-> 0, acks |-> 0]

IdleMs == [pc |-> "off"]
IdleRq == [pc |-> "off"]
IdleBk == [pc |-> "off"]
IdleTk == [pc |-> "off"]
IdlePay == [pc |-> "off"]

\* the wallet after the top-up that funds the orders
FundedWallet ==
  [balance |-> InitialBalance,
   transactions |-> <<Transaction("credit", InitialBalance, NULL)>>]

Init ==
  /\ wallet = FundedWallet
  /\ orders = [o \in OrderIds |-> NoOrder]
  /\ co = [c \in OrderIds |-> IdleCo]
  /\ ship = [c \in OrderIds |-> IdleShip]
  /\ wh = <<>>
  /\ pk = IdlePk
  /\ tr = IdleTr
  /\ wc = <<>>
  /\ ms = IdleMs
  /\ rq = IdleRq
  /\ bk = IdleBk
  /\ tk = IdleTk
  /\ pay = IdlePay

Next ==
  \/ \E c \in OrderIds, p \in PartnerInputs, w \in Weights : CreateOrderQuote(c, p, w)
  \/ \E c \in OrderIds : CreateOrderPersist(c)
  \/ \E c \in OrderIds : CreateOrderDebitRead(c)
  \/ \E c \in OrderIds : CreateOrderDebitSave(c)
  \/ \E c \in OrderIds, saved \in BOOLEAN : CreateOrderMarkPaid(c, saved)
  \/ \E c \in OrderIds : CreateOrderRollback(c)
  \/ \E c \in OrderIds : ShipmentSettle(c)

Spec == Init /\ [][Next]_vars

---------------------------------------------------------------------------
(* Status updates on a placed order: the state after createOrder returned   *)
(* success for order 1 (paid by the fallback quote, shipment request in     *)
(* flight), then webhooks, pickup requests, tracking and the shipment task  *)

PlacedWeight == 1        \* weight (kg) of the order already placed

PlacedOrder ==
  MarkPaid(NewOrder("nimbuspost", PlacedWeight,
                    calculateRate("nimbuspost", PlacedWeight,
                                  ProviderError(HTTP_NOT_IMPLEMENTED))))

InitStatus ==
  /\ wallet = SaveTransaction(FundedWallet, FundedWallet, "debit", PlacedOrder.totalAmount, 1)
  /\ orders = [o \in OrderIds |-> IF o = 1 THEN PlacedOrder ELSE NoOrder]
  /\ co = [c \in OrderIds |->
             IF c = 1
               THEN [IdleCo EXCEPT !.pc = "done", !.partner = "nimbuspost",
                                   !.weight = PlacedWeight, !.persisted = TRUE,
                                   !.pricing = calculateRate("nimbuspost", PlacedWeight,
                                                 ProviderError(HTTP_NOT_IMPLEMENTED))]
               ELSE IdleCo]
  /\ ship = [c \in OrderIds |-> IF c = 1 THEN StartShipment(IdleShip) ELSE IdleShip]
  /\ wh = [w \in WebhookIds |-> IdleWh]
  /\ pk = IdlePk
  /\ tr = IdleTr
  /\ wc = <<>>
  /\ ms = IdleMs
  /\ rq = IdleRq
  /\ bk = IdleBk
  /\ tk = IdleTk
  /\ pay = IdlePay

NextStatus ==
  \/ \E c \in OrderIds : ShipmentSettle(c)
  \/ \E w \in WebhookIds, o \in OrderIds \cup {0}, a \in WebhookAwbs,
        s \in WebhookStatuses, td \in TrackingDataInputs :
          WebhookFind(w, o, a, s, td)
  \/ \E w \in WebhookIds : WebhookSave(w)
  \/ PickupFind
  \/ PickupUpdate
  \/ \E o \in OrderIds : TrackOrderRead(o)
  \/ TrackOrderSettle

SpecStatus == InitStatus /\ [][NextStatus]_vars

---------------------------------------------------------------------------
(* Webhooks alone on the placed order: concurrent updateOrderStatus calls   *)

NextHook ==
  \/ \E w \in WebhookIds, o \in OrderIds \cup {0}, a \in WebhookAwbs,
        s \in WebhookStatuses, td \in TrackingDataInputs :
          WebhookFind(w, o, a, s, td)
  \/ \E w \in WebhookIds : WebhookSave(w)

SpecHook == InitStatus /\ [][NextHook]_vars

---------------------------------------------------------------------------
(* The shipment task of the placed order and webhooks on it, the task being *)
(* followed from the point where thirdPartyAPIService.createShipment is     *)
(* answered by an adapter                                                   *)

NextShip ==
  \/ \E c \in OrderIds : ShipmentAnswered(c)
  \/ \E w \in WebhookIds, o \in OrderIds \cup {0}, a \in WebhookAwbs,
        s \in WebhookStatuses, td \in TrackingDataInputs :
          WebhookFind(w, o, a, s, td)
  \/ \E w \in WebhookIds : WebhookSave(w)

SpecShip == InitStatus /\ [][NextShip]_vars

---------------------------------------------------------------------------
(* Tracking polls and webhooks on the placed order, trackOrder being         *)
(* followed from the point where thirdPartyAPIService.trackShipment is      *)
(* answered by an adapter                                                   *)

NextTrack ==
  \/ \E w \in WebhookIds, o \in OrderIds \cup {0}, a \in WebhookAwbs,
        s \in WebhookStatuses, td \in TrackingDataInputs :
          WebhookFind(w, o, a, s, td)
  \/ \E w \in WebhookIds : WebhookSave(w)
  \/ \E o \in OrderIds : TrackOrderRead(o)
  \/ TrackOrderAnswered

SpecTrack == InitStatus /\ [][NextTrack]_vars

---------------------------------------------------------------------------
(* The wallet ledger: concurrent WalletService.addMoney and deductMoney     *)
(* requests on one wallet, which starts empty                               *)

WalletCallIds == 1..MaxWalletCalls

\* amounts of the requests; 0 and -1 are not strictly positive
Amounts == (-1)..MaxAmount

IdleWc == [pc |-> "idle", op |-> NULL, amount |-> 0, wbal |-> 0, err |-> 0, kind |-> NULL]

FailWc(op, amount, code, kind) ==
  [IdleWc EXCEPT !.pc = "failed", !.op = op, !.amount = amount,
                 !.err = code, !.kind = kind]

\* addMoney lines 37-41: amount check, then getWalletByUserId
AddMoneyRead(c, amount) ==
  /\ wc[c].pc = "idle"
  /\ IF c = 1 THEN TRUE ELSE wc[c - 1].pc # "idle"
  /\ wc' = [wc EXCEPT ![c] =
       IF amount <= 0
         THEN FailWc("addMoney", amount, HTTP_BAD_REQUEST, "InvalidAmount")
         ELSE [IdleWc EXCEPT !.pc = "save", !.op = "addMoney", !.amount = amount,
                             !.wbal = wallet.balance]]
  /\ UNCHANGED <<wallet, orders, co, ship, wh, pk, tr, ms, rq, bk, tk, pay>>

\* deductMoney lines 86-94: amount check, getWalletByUserId, balance check
DeductMoneyRead(c, amount) ==
  /\ wc[c].pc = "idle"
  /\ IF c = 1 THEN TRUE ELSE wc[c - 1].pc # "idle"
  /\ wc' = [wc EXCEPT ![c] =
       IF amount <= 0
         THEN FailWc("deductMoney", amount, HTTP_BAD_REQUEST, "InvalidAmount")
       ELSE IF InsufficientBalance(wallet.balance, amount)
         THEN FailWc("deductMoney", amount, HTTP_BAD_REQUEST, "InsufficientFunds")
       ELSE [IdleWc EXCEPT !.pc = "save", !.op = "deductMoney", !.amount = amount,
                           !.wbal = wallet.balance]]
  /\ UNCHANGED <<wallet, orders, co, ship, wh, pk, tr, ms, rq, bk, tk, pay>>

\* wallet.addTransaction and its save, for either request
WalletCallSave(c) ==
  /\ wc[c].pc = "save"
  /\ wallet' = SaveTransaction(wallet, [balance |-> wc[c].wbal],
                               IF wc[c].op = "addMoney" THEN "credit" ELSE "debit",
                               wc[c].amount, NULL)
  /\ wc' = [wc EXCEPT ![c] = [IdleWc EXCEPT !.pc = "done", !.op = wc[c].op]]
  /\ UNCHANGED <<orders, co, ship, wh, pk, tr, ms, rq, bk, tk, pay>>

\* the wallet getWalletByUserId creates on first reference
EmptyWallet == [balance |-> 0, transactions |-> <<>>]

InitLedger ==
  /\ wallet = EmptyWallet
  /\ orders = [o \in OrderIds |-> NoOrder]
  /\ co = [c \in OrderIds |-> IdleCo]
  /\ ship = [c \in OrderIds |-> IdleShip]
  /\ wh = <<>>
  /\ pk = IdlePk
  /\ tr = IdleTr
  /\ wc = [c \in WalletCallIds |-> IdleWc]
  /\ ms = IdleMs
  /\ rq = IdleRq
  /\ bk = IdleBk
  /\ tk = IdleTk
  /\ pay = IdlePay

NextLedger ==
  \/ \E c \in WalletCallIds, a \in Amounts : AddMoneyRead(c, a)
  \/ \E c \in WalletCallIds, a \in Amounts : DeductMoneyRead(c, a)
  \/ \E c \in WalletCallIds : WalletCallSave(c)

SpecLedger == InitLedger /\ [][NextLedger]_vars

---------------------------------------------------------------------------
(* Claims on the wallet ledger (SpecLedger) *)

LedgerQuiet == \A c \in DOMAIN wc : wc[c].pc \in {"idle", "done", "failed"}

LedgerSum(w) == SumOf(w.transactions, "credit") - SumOf(w.transactions, "debit")

\* C1: once every addMoney/deductMoney request has completed, the stored
\* balance equals the initial balance (0) plus the credits minus the debits
\* recorded in the transaction log, also when reads and saves interleave.
C1_BalanceEqualsLedgerSum ==
  LedgerQuiet => wallet.balance = LedgerSum(wallet)

\* C2: the debits accepted on an account never exceed the initial balance (0)
\* plus the accepted credits: no debit is applied against a balance snapshot
\* that misses a committed transaction.
C2_DebitsNeverExceedCredits ==
  SumOf(wallet.transactions, "debit") <= SumOf(wallet.transactions, "credit")

\* C11: a deductMoney whose amount exceeds the balance it reads fails with
\* InsufficientFunds (400) and changes neither the balance nor the
\* transaction log; a deductMoney that is accepted had an amount within the
\* balance and, when no other request saved in between, leaves the balance
\* lowered by exactly its amount (500, debit 300 -> 200, debit 300 -> fails,
\* still 200).
C11_OverdraftRejectedUnchanged ==
  [][\A c \in DOMAIN wc :
       /\ wc[c].pc = "idle" /\ wc'[c].op = "deductMoney"
            /\ wc'[c].amount > wallet.balance
          => /\ wc'[c].pc = "failed"
             /\ wc'[c].kind = "InsufficientFunds"
             /\ wc'[c].err = HTTP_BAD_REQUEST
             /\ wallet' = wallet
       /\ wc[c].pc = "idle" /\ wc'[c].op = "deductMoney" /\ wc'[c].pc = "save"
          => wc'[c].amount <= wallet.balance
       /\ wc[c].pc = "save" /\ wc[c].op = "deductMoney" /\ wc'[c].pc = "done"
            /\ wc[c].wbal = wallet.balance
          => wallet'.balance = wallet.balance - wc[c].amount]_vars

\* a debit was accepted and saved, and a later debit of the same amount was
\* rejected, the balance being what the first debit left
C11_Witness ==
  \E c, d \in DOMAIN wc :
    /\ c < d
    /\ wc[c].pc = "done" /\ wc[c].op = "deductMoney"
    /\ wc[d].pc = "failed" /\ wc[d].kind = "InsufficientFunds"
    /\ wc[d].amount > wallet.balance
    /\ wallet.balance > 0
    /\ SumOf(wallet.transactions, "debit") = wc[d].amount
    /\ wallet.balance = LedgerSum(wallet)

\* C17: addMoney and deductMoney with an amount that is zero or negative
\* fail with InvalidAmount (400) and leave the wallet unchanged; addMoney
\* with a positive amount appends exactly one credit transaction of that
\* amount and raises the stored balance by exactly that amount.
C17_AmountValidationAndExactCredit ==
  [][\A c \in DOMAIN wc :
       /\ wc[c].pc = "idle" /\ wc'[c].pc # "idle" /\ wc'[c].amount <= 0
          => /\ wc'[c].pc = "failed"
             /\ wc'[c].kind = "InvalidAmount"
             /\ wc'[c].err = HTTP_BAD_REQUEST
             /\ wallet' = wallet
       /\ wc[c].pc = "save" /\ wc[c].op = "addMoney" /\ wc'[c].pc = "done"
          => /\ wallet'.transactions =
                  Append(wallet.transactions, Transaction("credit", wc[c].amount, NULL))
             /\ wallet'.balance = wallet.balance + wc[c].amount]_vars

---------------------------------------------------------------------------
(* Claims on order placement (Spec) *)

DebitsFor(c) ==
  {i \in DOMAIN wallet.transactions :
     /\ wallet.transactions[i].type = "debit"
     /\ wallet.transactions[i].orderId = c}

\* C3: after a createOrder call has finished, successfully or not, every
\* debit transaction that carries an order reference refers to an order that
\* still exists.
C3_NoDebitWithoutOrder ==
  \A c \in OrderIds :
    co[c].pc \in {"done", "failed"} /\ DebitsFor(c) # {} => orders[c].exists

C6_InsufficientFundsWritesNothing ==
  [][\A c \in OrderIds :
       co[c].pc = "idle" /\ co'[c].pc = "failed" /\ co'[c].kind = "InsufficientFunds"
       => /\ co'[c].err = HTTP_BAD_REQUEST
          /\ co'[c].required - co'[c].available > 0
          /\ co'[c].available = wallet.balance
          /\ orders' = orders
          /\ wallet' = wallet]_vars

\* a createOrder call rejected for insufficient funds before any write
C6_Witness ==
  \E c \in OrderIds :
    /\ co[c].pc = "failed"
    /\ co[c].kind = "InsufficientFunds"
    /\ ~co[c].persisted
    /\ co[c].required > co[c].available
    /\ DebitsFor(c) = {}

\* C9: a failure of the provider rate call never fails createOrder; a call
\* priced by the fallback that returned success left an order priced at
\* base + weight x rate, a debit of that total referring to the order,
\* payment.status completed, and the shipment request started once.
C9_RateFailureNeverBlocksOrder ==
  \A c \in OrderIds :
    /\ co[c].pc = "failed" => co[c].kind # "RateFailed"
    /\ co[c].pc = "done" /\ co[c].pricing.fallback =>
         /\ orders[c].exists
         /\ orders[c].totalAmount = FallbackBaseRate + FallbackPerKg * orders[c].weight
         /\ orders[c].payStatus = "completed"
         /\ \E i \in DebitsFor(c) :
              wallet.transactions[i].amount = orders[c].totalAmount
         /\ ship[c].calls = 1

\* createOrder succeeded although the rate call had failed
C9_Witness ==
  \E c \in OrderIds :
    /\ co[c].pc = "done"
    /\ co[c].pricing.fallback
    /\ orders[c].payStatus = "completed"
    /\ ship[c].state = "in_flight"

\* C15: when shipment creation fails after the payment succeeded, the
\* createOrder call has returned success and stays so, and the order stays
\* pending with payment.status completed, no AWB, and its debit in the
\* wallet log with no credit giving it back.
C15_ShipmentFailureLeavesPaidPendingOrder ==
  \A c \in OrderIds :
    ship[c].state = "settled" /\ ship[c].acks = 0 =>
      /\ co[c].pc = "done" /\ co[c].err = 0
      /\ orders[c].exists
      /\ orders[c].status = "pending"
      /\ orders[c].payStatus = "completed"
      /\ orders[c].awb = NULL
      /\ \E i \in DebitsFor(c) : wallet.transactions[i].amount = orders[c].totalAmount
      /\ \A i \in DOMAIN wallet.transactions :
           wallet.transactions[i].type = "credit" => wallet.transactions[i].orderId = NULL

\* the shipment task of a paid order has failed
C15_Witness ==
  \E c \in OrderIds :
    /\ ship[c].state = "settled" /\ ship[c].acks = 0 /\ ship[c].calls = 1
    /\ co[c].pc = "done"
    /\ orders[c].payStatus = "completed"

---------------------------------------------------------------------------
(* Claims on status updates (SpecStatus) *)

TerminalStatuses == {"delivered", "cancelled", "rto"}

\* C7: an order whose status is delivered, cancelled or rto keeps that
\* status: no status update, from a webhook or a pickup request, moves it to
\* another status.
C7_TerminalStatusesAreFinal ==
  [][\A o \in OrderIds :
       orders[o].exists /\ orders[o].status \in TerminalStatuses
       => orders'[o].status = orders[o].status]_vars

\* C16: a failure of the adapter's trackShipment during trackOrder leaves
\* every order as it was, status included, and is answered to the caller as
\* a result carrying a message, not as an error.
C16_TrackingFailureLeavesStatus ==
  [][tr.pc = "await" /\ tr'.pc = "idle" /\ tr'.message # "tracked"
     => /\ orders' = orders
        /\ tr'.message = "Unable to fetch tracking details"]_vars

\* a trackOrder call whose tracking request failed has returned, the order
\* carrying an AWB
C16_Witness ==
  /\ tr.pc = "idle"
  /\ tr.message = "Unable to fetch tracking details"
  /\ \E o \in OrderIds : orders[o].exists /\ orders[o].awb # NULL

\* the closed internal set of statuses, as the claims list it
ClosedStatusSet ==
  {"pending", "confirmed", "picked_up", "in_transit", "out_for_delivery",
   "delivered", "cancelled", "rto"}

\* C12: updateOrderStatus on an existing order with a status outside
\* {pending, confirmed, picked_up, in_transit, out_for_delivery, delivered,
\* cancelled, rto} fails with InvalidStatus (400) and the step leaves the
\* order (status, AWB, tracking URL, history) unchanged; no update with such
\* a status ever gets as far as the save.
C12_InvalidStatusRejectedUnchanged ==
  [][\A w \in DOMAIN wh :
       /\ wh[w].pc = "idle" /\ wh'[w].pc # "idle"
            /\ wh'[w].status \notin ClosedStatusSet
            /\ wh'[w].kind \notin {"MissingIdentifier", "OrderNotFound"}
          => /\ wh'[w].pc = "done"
             /\ wh'[w].kind = "InvalidStatus"
             /\ wh'[w].err = HTTP_BAD_REQUEST
             /\ orders' = orders
       /\ wh'[w].pc = "save" => wh'[w].status \in ClosedStatusSet]_vars

\* an update carrying a status outside the set was rejected, the order
\* standing as it was placed
C12_Witness ==
  \E w \in DOMAIN wh :
    /\ wh[w].pc = "done"
    /\ wh[w].kind = "InvalidStatus"
    /\ wh[w].status = "weird"
    /\ orders[1] = PlacedOrder

\* C13: a status webhook carrying neither orderId nor AWB is answered 400,
\* and one whose orderId matches no order and that carries no AWB is
\* answered OrderNotFound with status 400; neither changes an order or the
\* wallet.
C13_UnidentifiedWebhookRejected400 ==
  \A w \in DOMAIN wh :
    wh[w].pc = "done" /\ wh[w].kind \in {"MissingIdentifier", "OrderNotFound"}
    => wh[w].err = HTTP_BAD_REQUEST

C22_PaidOrderCarriesTransactionId ==
  \A c \in OrderIds :
    co[c].pc = "done" /\ orders[c].exists
    => /\ orders[c].payStatus = "completed"
       /\ orders[c].paidAt
       /\ orders[c].transactionId # NULL

\* C23: every order created from a fallback quote carries in its stored
\* metadata a marker saying so, and an order priced by a provider's quote
\* carries none.
C23_FallbackQuoteMarkedInOrder ==
  \A c \in OrderIds :
    orders[c].exists /\ co[c].pc # "idle"
    => orders[c].fallbackNote = co[c].pricing.fallback

\* C25: cancelling a paid order is a status transition only: a successful
\* updateOrderStatus with status cancelled leaves the order persisted and
\* leaves the wallet balance and the transaction log as they were; the debit
\* of the order stays in the log.
C25_CancellationKeepsOrderAndWallet ==
  [][\A w \in DOMAIN wh :
       wh[w].pc = "save" /\ wh'[w].pc = "done" /\ wh'[w].kind = NULL
         /\ wh[w].status = "cancelled"
       => /\ orders'[wh[w].target].exists
          /\ orders'[wh[w].target].payStatus = "completed"
          /\ wallet' = wallet
          /\ \E i \in DOMAIN wallet'.transactions :
               /\ wallet'.transactions[i].type = "debit"
               /\ wallet'.transactions[i].orderId = wh[w].target]_vars

\* the paid order has been cancelled by a webhook: it is stored with status
\* cancelled, and its debit is the last entry of the log
C25_Witness ==
  /\ orders[1].exists
  /\ orders[1].status = "cancelled"
  /\ orders[1].payStatus = "completed"
  /\ \E w \in DOMAIN wh : wh[w].pc = "done" /\ wh[w].kind = NULL
  /\ wallet.balance = InitialBalance - orders[1].totalAmount
  /\ wallet.transactions[Len(wallet.transactions)].type = "debit"

C19_StatusHistoryAppendOnly ==
  [][\A w \in DOMAIN wh :
       wh[w].pc = "save" /\ wh'[w].pc = "done" /\ wh'[w].kind = NULL
       => orders'[wh[w].target].statusHistory
            = Append(orders[wh[w].target].statusHistory,
                     [status |-> wh[w].status,
                      previousStatus |-> wh[w].snap.status])]_vars

---------------------------------------------------------------------------
(* mapStatus of the provider adapters. A string is a sequence of its        *)
(* characters, so that trim, toLowerCase, toUpperCase and includes are      *)
(* computed as the code computes them.                                      *)

LowerLetters == <<"a", "b", "c", "d", "e", "f", "g", "h", "i", "j", "k", "l", "m", "n", "o", "p", "q", "r", "s", "t", "u", "v", "w", "x", "y", "z">>
UpperLetters == <<"A", "B", "C", "D", "E", "F", "G", "H", "I", "J", "K", "L", "M", "N", "O", "P", "Q", "R", "S", "T", "U", "V", "W", "X", "Y", "Z">>

toLowerCaseChar(ch) ==
  IF \E i \in DOMAIN UpperLetters : UpperLetters[i] = ch
    THEN LowerLetters[CHOOSE i \in DOMAIN UpperLetters : UpperLetters[i] = ch]
    ELSE ch

toUpperCaseChar(ch) ==
  IF \E i \in DOMAIN LowerLetters : LowerLetters[i] = ch
    THEN UpperLetters[CHOOSE i \in DOMAIN LowerLetters : LowerLetters[i] = ch]
    ELSE ch

\* String.prototype.toLowerCase / toUpperCase
toLowerCase(s) == [i \in 1..Len(s) |-> toLowerCaseChar(s[i])]
toUpperCase(s) == [i \in 1..Len(s) |-> toUpperCaseChar(s[i])]

\* String.prototype.trim, on the blank
RECURSIVE trimStart(_)
trimStart(s) == IF s # <<>> /\ Head(s) = " " THEN trimStart(Tail(s)) ELSE s

RECURSIVE trimEnd(_)
trimEnd(s) ==
  IF s # <<>> /\ s[Len(s)] = " " THEN trimEnd(SubSeq(s, 1, Len(s) - 1)) ELSE s

trim(s) == trimEnd(trimStart(s))

\* String.prototype.includes
includes(s, sub) ==
  \E i \in 0..(Len(s) - Len(sub)) : SubSeq(s, i + 1, i + Len(sub)) = sub

\* undefined and the empty string are both falsy, and the code only tests
\* the truthiness of what it looked up
Undefined == <<>>
Truthy(v) == v # <<>>

\* the values of ORDER_STATUS (part_016 lines 30-39), as character sequences
ORDER_STATUS_PENDING == <<"p", "e", "n", "d", "i", "n", "g">>
ORDER_STATUS_CONFIRMED == <<"c", "o", "n", "f", "i", "r", "m", "e", "d">>
ORDER_STATUS_PICKED_UP == <<"p", "i", "c", "k", "e", "d", "_", "u", "p">>
ORDER_STATUS_IN_TRANSIT == <<"i", "n", "_", "t", "r", "a", "n", "s", "i", "t">>
ORDER_STATUS_OUT_FOR_DELIVERY == <<"o", "u", "t", "_", "f", "o", "r", "_", "d", "e", "l", "i", "v", "e", "r", "y">>
ORDER_STATUS_DELIVERED == <<"d", "e", "l", "i", "v", "e", "r", "e", "d">>
ORDER_STATUS_CANCELLED == <<"c", "a", "n", "c", "e", "l", "l", "e", "d">>
ORDER_STATUS_RTO == <<"r", "t", "o">>

\* the property names an object literal inherits from Object.prototype
ObjectPrototypeKeys ==
  {<<"c", "o", "n", "s", "t", "r", "u", "c", "t", "o", "r">>,
   <<"_", "_", "d", "e", "f", "i", "n", "e", "G", "e", "t", "t", "e", "r", "_", "_">>,
   <<"_", "_", "d", "e", "f", "i", "n", "e", "S", "e", "t", "t", "e", "r", "_", "_">>,
   <<"h", "a", "s", "O", "w", "n", "P", "r", "o", "p", "e", "r", "t", "y">>,
   <<"_", "_", "l", "o", "o", "k", "u", "p", "G", "e", "t", "t", "e", "r", "_", "_">>,
   <<"_", "_", "l", "o", "o", "k", "u", "p", "S", "e", "t", "t", "e", "r", "_", "_">>,
   <<"i", "s", "P", "r", "o", "t", "o", "t", "y", "p", "e", "O", "f">>,
   <<"p", "r", "o", "p", "e", "r", "t", "y", "I", "s", "E", "n", "u", "m", "e", "r", "a", "b", "l", "e">>,
   <<"t", "o", "S", "t", "r", "i", "n", "g">>,
   <<"v", "a", "l", "u", "e", "O", "f">>,
   <<"_", "_", "p", "r", "o", "t", "o", "_", "_">>,
   <<"t", "o", "L", "o", "c", "a", "l", "e", "S", "t", "r", "i", "n", "g">>}

\* what a lookup of an inherited property name yields: a function or an
\* object, which is truthy and is not a string
InheritedMember == <<"[object]">>

\* statusMap[key] on an object literal given as its entries in source order
Lookup(statusMap, key) ==
  IF \E i \in DOMAIN statusMap : statusMap[i][1] = key
    THEN statusMap[CHOOSE i \in DOMAIN statusMap : statusMap[i][1] = key][2]
  ELSE IF key \in ObjectPrototypeKeys THEN InheritedMember
  ELSE Undefined

\* the for-of loop over Object.entries(statusMap): the value of the first
\* entry whose key, once uppercased or lowercased, equals the wanted string
FirstEntry(statusMap, upper, wanted) ==
  LET conv(k) == IF upper THEN toUpperCase(k) ELSE toLowerCase(k)
      hits == {i \in DOMAIN statusMap : conv(statusMap[i][1]) = wanted}
  IN IF hits = {} THEN Undefined
     ELSE statusMap[CHOOSE i \in hits : \A j \in hits : i <= j][2]

\* BaseProvider.mapStatus
BaseMapStatus(providerStatus) ==
  IF Truthy(toLowerCase(providerStatus)) THEN toLowerCase(providerStatus)
  ELSE ORDER_STATUS_PENDING

DelhiveryStatusMap ==
  << <<<<"I", "n", " ", "T", "r", "a", "n", "s", "i", "t">>, ORDER_STATUS_IN_TRANSIT>>,
     <<<<"O", "u", "t", " ", "f", "o", "r", " ", "D", "e", "l", "i", "v", "e", "r", "y">>, ORDER_STATUS_OUT_FOR_DELIVERY>>,
     <<<<"D", "e", "l", "i", "v", "e", "r", "e", "d">>, ORDER_STATUS_DELIVERED>>,
     <<<<"R", "T", "O">>, ORDER_STATUS_RTO>>,
     <<<<"C", "a", "n", "c", "e", "l", "l", "e", "d">>, ORDER_STATUS_CANCELLED>>,
     <<<<"P", "e", "n", "d", "i", "n", "g">>, ORDER_STATUS_PENDING>>,
     <<<<"D", "i", "s", "p", "a", "t", "c", "h", "e", "d">>, ORDER_STATUS_CONFIRMED>>,
     <<<<"M", "a", "n", "i", "f", "e", "s", "t", "e", "d">>, ORDER_STATUS_CONFIRMED>>,
     <<<<"P", "i", "c", "k", "u", "p">>, ORDER_STATUS_PICKED_UP>> >>

\* DelhiveryProvider.mapStatus
DelhiveryMapStatus(delhiveryStatus) ==
  LET normalizedStatus == trim(delhiveryStatus)
      lowerStatus == toLowerCase(normalizedStatus)
  IN IF Truthy(Lookup(DelhiveryStatusMap, normalizedStatus))
       THEN Lookup(DelhiveryStatusMap, normalizedStatus)
     ELSE IF Truthy(FirstEntry(DelhiveryStatusMap, FALSE, lowerStatus))
       THEN FirstEntry(DelhiveryStatusMap, FALSE, lowerStatus)
     ELSE ORDER_STATUS_PENDING

NimbusStatusMap ==
  << <<<<"b", "o", "o", "k", "e", "d">>, <<"c", "o", "n", "f", "i", "r", "m", "e", "d">>>>,
     <<<<"m", "a", "n", "i", "f", "e", "s", "t", "e", "d">>, <<"i", "n", "_", "t", "r", "a", "n", "s", "i", "t">>>>,
     <<<<"s", "h", "i", "p", "p", "e", "d">>, <<"i", "n", "_", "t", "r", "a", "n", "s", "i", "t">>>>,
     <<<<"i", "n", "_", "t", "r", "a", "n", "s", "i", "t">>, <<"i", "n", "_", "t", "r", "a", "n", "s", "i", "t">>>>,
     <<<<"o", "u", "t", "_", "f", "o", "r", "_", "d", "e", "l", "i", "v", "e", "r", "y">>, <<"o", "u", "t", "_", "f", "o", "r", "_", "d", "e", "l", "i", "v", "e", "r", "y">>>>,
     <<<<"d", "e", "l", "i", "v", "e", "r", "e", "d">>, <<"d", "e", "l", "i", "v", "e", "r", "e", "d">>>>,
     <<<<"r", "t", "o">>, <<"r", "t", "o">>>>,
     <<<<"r", "t", "o", "_", "d", "e", "l", "i", "v", "e", "r", "e", "d">>, <<"r", "t", "o", "_", "d", "e", "l", "i", "v", "e", "r", "e", "d">>>>,
     <<<<"c", "a", "n", "c", "e", "l", "l", "e", "d">>, <<"c", "a", "n", "c", "e", "l", "l", "e", "d">>>>,
     <<<<"l", "o", "s", "t">>, <<"l", "o", "s", "t">>>>,
     <<<<"d", "a", "m", "a", "g", "e", "d">>, <<"d", "a", "m", "a", "g", "e", "d">>>> >>

\* NimbusPostProvider.mapStatus
NimbusMapStatus(nimbusStatus) ==
  IF Truthy(Lookup(NimbusStatusMap, toLowerCase(nimbusStatus)))
    THEN Lookup(NimbusStatusMap, toLowerCase(nimbusStatus))
  ELSE IF Truthy(toLowerCase(nimbusStatus)) THEN toLowerCase(nimbusStatus)
  ELSE ORDER_STATUS_PENDING

OverseasStatusMap ==
  << <<<<"P", "K", "L">>, ORDER_STATUS_PICKED_UP>>,
     <<<<"P", "K", "D">>, ORDER_STATUS_PICKED_UP>>,
     <<<<"P", "i", "c", "k", "e", "d", " ", "U", "p">>, ORDER_STATUS_PICKED_UP>>,
     <<<<"P", "I", "C", "K", "U", "P">>, ORDER_STATUS_PICKED_UP>>,
     <<<<"I", "N", "_", "T", "R", "A", "N", "S", "I", "T">>, ORDER_STATUS_IN_TRANSIT>>,
     <<<<"I", "n", " ", "T", "r", "a", "n", "s", "i", "t">>, ORDER_STATUS_IN_TRANSIT>>,
     <<<<"T", "R", "A", "N", "S", "I", "T">>, ORDER_STATUS_IN_TRANSIT>>,
     <<<<"D", "E", "P">>, ORDER_STATUS_IN_TRANSIT>>,
     <<<<"A", "R", "R">>, ORDER_STATUS_IN_TRANSIT>>,
     <<<<"O", "U", "T">>, ORDER_STATUS_OUT_FOR_DELIVERY>>,
     <<<<"O", "F", "D">>, ORDER_STATUS_OUT_FOR_DELIVERY>>,
     <<<<"O", "u", "t", " ", "f", "o", "r", " ", "D", "e", "l", "i", "v", "e", "r", "y">>, ORDER_STATUS_OUT_FOR_DELIVERY>>,
     <<<<"D", "L", "V">>, ORDER_STATUS_DELIVERED>>,
     <<<<"D", "E", "L", "I", "V", "E", "R", "E", "D">>, ORDER_STATUS_DELIVERED>>,
     <<<<"D", "e", "l", "i", "v", "e", "r", "e", "d">>, ORDER_STATUS_DELIVERED>>,
     <<<<"P", "O", "D">>, ORDER_STATUS_DELIVERED>>,
     <<<<"R", "T", "O">>, ORDER_STATUS_RTO>>,
     <<<<"R", "E", "T", "U", "R", "N">>, ORDER_STATUS_RTO>>,
     <<<<"R", "e", "t", "u", "r", "n", "e", "d">>, ORDER_STATUS_RTO>>,
     <<<<"C", "A", "N", "C", "E", "L", "L", "E", "D">>, ORDER_STATUS_CANCELLED>>,
     <<<<"C", "a", "n", "c", "e", "l", "l", "e", "d">>, ORDER_STATUS_CANCELLED>>,
     <<<<"C", "A", "N", "C", "E", "L">>, ORDER_STATUS_CANCELLED>>,
     <<<<"P", "E", "N", "D", "I", "N", "G">>, ORDER_STATUS_PENDING>>,
     <<<<"P", "e", "n", "d", "i", "n", "g">>, ORDER_STATUS_PENDING>>,
     <<<<"M", "A", "N", "I", "F", "E", "S", "T", "E", "D">>, ORDER_STATUS_CONFIRMED>>,
     <<<<"M", "a", "n", "i", "f", "e", "s", "t", "e", "d">>, ORDER_STATUS_CONFIRMED>>,
     <<<<"B", "O", "O", "K", "E", "D">>, ORDER_STATUS_CONFIRMED>> >>

\* the keyword rules of OverseasLogisticProvider.mapStatus, in source order
OverseasKeywords ==
  << <<<<"d", "e", "l", "i", "v", "e", "r">>, ORDER_STATUS_DELIVERED>>,
     <<<<"t", "r", "a", "n", "s", "i", "t">>, ORDER_STATUS_IN_TRANSIT>>,
     <<<<"p", "i", "c", "k", "u", "p">>, ORDER_STATUS_PICKED_UP>>,
     <<<<"p", "i", "c", "k">>, ORDER_STATUS_PICKED_UP>>,
     <<<<"o", "u", "t", " ", "f", "o", "r">>, ORDER_STATUS_OUT_FOR_DELIVERY>>,
     <<<<"r", "e", "t", "u", "r", "n">>, ORDER_STATUS_RTO>>,
     <<<<"r", "t", "o">>, ORDER_STATUS_RTO>> >>

OverseasKeywordStatus(lowerStatus) ==
  LET hits == {i \in DOMAIN OverseasKeywords : includes(lowerStatus, OverseasKeywords[i][1])}
  IN IF hits = {} THEN Undefined
     ELSE OverseasKeywords[CHOOSE i \in hits : \A j \in hits : i <= j][2]

\* OverseasLogisticProvider.mapStatus
OverseasMapStatus(providerStatus) ==
  LET normalizedStatus == trim(providerStatus)
      upperStatus == toUpperCase(normalizedStatus)
      lowerStatus == toLowerCase(normalizedStatus)
  IN IF ~Truthy(providerStatus) THEN ORDER_STATUS_PENDING
     ELSE IF Truthy(Lookup(OverseasStatusMap, normalizedStatus))
       THEN Lookup(OverseasStatusMap, normalizedStatus)
     ELSE IF Truthy(FirstEntry(OverseasStatusMap, TRUE, upperStatus))
       THEN FirstEntry(OverseasStatusMap, TRUE, upperStatus)
     ELSE IF Truthy(OverseasKeywordStatus(lowerStatus))
       THEN OverseasKeywordStatus(lowerStatus)
     ELSE ORDER_STATUS_PENDING

Adapters == {"base", "delhivery", "nimbuspost", "overseas_logistic"}

mapStatus(adapter, providerStatus) ==
  CASE adapter = "base" -> BaseMapStatus(providerStatus)
    [] adapter = "delhivery" -> DelhiveryMapStatus(providerStatus)
    [] adapter = "nimbuspost" -> NimbusMapStatus(providerStatus)
    [] adapter = "overseas_logistic" -> OverseasMapStatus(providerStatus)

\* status strings a partner may send: vocabulary of the three partners and
\* strings outside it, each also lowercased, uppercased and padded with blanks
SampleStatuses ==
  {<<>>,
   <<"w", "e", "i", "r", "d", "s", "t", "a", "t", "u", "s", "1", "2", "3">>,
   <<"I", "n", " ", "T", "r", "a", "n", "s", "i", "t">>,
   <<"O", "u", "t", " ", "f", "o", "r", " ", "D", "e", "l", "i", "v", "e", "r", "y">>,
   <<"D", "e", "l", "i", "v", "e", "r", "e", "d">>,
   <<"R", "T", "O">>,
   <<"C", "a", "n", "c", "e", "l", "l", "e", "d">>,
   <<"P", "e", "n", "d", "i", "n", "g">>,
   <<"D", "i", "s", "p", "a", "t", "c", "h", "e", "d">>,
   <<"P", "i", "c", "k", "u", "p">>,
   <<"b", "o", "o", "k", "e", "d">>,
   <<"s", "h", "i", "p", "p", "e", "d">>,
   <<"r", "t", "o", "_", "d", "e", "l", "i", "v", "e", "r", "e", "d">>,
   <<"l", "o", "s", "t">>,
   <<"O", "F", "D">>,
   <<"D", "L", "V">>,
   <<"P", "K", "L">>,
   <<"c", "o", "n", "s", "t", "r", "u", "c", "t", "o", "r">>,
   <<"S", "h", "i", "p", "m", "e", "n", "t", " ", "r", "e", "t", "u", "r", "n", "e", "d">>,
   <<"P", "i", "c", "k", "e", "d", " ", "b", "y", " ", "c", "o", "u", "r", "i", "e", "r">>,
   <<"H", "e", "l", "d", " ", "a", "t", " ", "c", "u", "s", "t", "o", "m", "s">>}

StatusInputs ==
  UNION {{s, toLowerCase(s), toUpperCase(s), <<" ">> \o s \o <<" ">>} : s \in SampleStatuses}

\* one mapStatus call of one adapter
MapStatus(adapter, providerStatus) ==
  /\ ms' = [pc |-> "done", adapter |-> adapter, input |-> providerStatus,
            result |-> mapStatus(adapter, providerStatus)]
  /\ UNCHANGED <<wallet, orders, co, ship, wh, pk, tr, wc, rq, bk, tk, pay>>

InitMap ==
  /\ wallet = EmptyWallet
  /\ orders = [o \in OrderIds |-> NoOrder]
  /\ co = [c \in OrderIds |-> IdleCo]
  /\ ship = [c \in OrderIds |-> IdleShip]
  /\ wh = <<>>
  /\ pk = IdlePk
  /\ tr = IdleTr
  /\ wc = <<>>
  /\ ms = IdleMs
  /\ rq = IdleRq
  /\ bk = IdleBk
  /\ tk = IdleTk
  /\ pay = IdlePay

NextMap == \E a \in Adapters, s \in StatusInputs : MapStatus(a, s)

SpecMap == InitMap /\ [][NextMap]_vars

---------------------------------------------------------------------------
(* Claims on mapStatus (SpecMap) *)

\* the partner vocabulary of an adapter: the keys of its statusMap up to
\* case and surrounding blanks, the keyword rules of the overseas adapter,
\* and, for the base adapter, the internal status names themselves
InternalStatusNames ==
  {ORDER_STATUS_PENDING, ORDER_STATUS_CONFIRMED, ORDER_STATUS_PICKED_UP,
   ORDER_STATUS_IN_TRANSIT, ORDER_STATUS_OUT_FOR_DELIVERY, ORDER_STATUS_DELIVERED,
   ORDER_STATUS_CANCELLED, ORDER_STATUS_RTO}

Recognized(adapter, s) ==
  LET key == toLowerCase(trim(s))
      inMap(m) == \E i \in DOMAIN m : toLowerCase(m[i][1]) = key
  IN CASE adapter = "base" -> key \in InternalStatusNames
       [] adapter = "delhivery" -> inMap(DelhiveryStatusMap)
       [] adapter = "nimbuspost" -> inMap(NimbusStatusMap)
       [] adapter = "overseas_logistic" ->
            inMap(OverseasStatusMap) \/ Truthy(OverseasKeywordStatus(key))

\* C8: for every adapter (base, Delhivery, NimbusPost, OverseasLogistic),
\* mapStatus returns a status for every input string, the empty string
\* included, and returns pending for every string outside the partner
\* vocabulary, such as "weirdstatus123".
C8_MapStatusDefaultsToPending ==
  ms.pc = "done" /\ ~Recognized(ms.adapter, ms.input)
  => ms.result = ORDER_STATUS_PENDING


\* C18: every adapter's mapStatus maps "Out for Delivery" to
\* out_for_delivery, "OFD" to out_for_delivery, and "weirdstatus123" to
\* pending.
C18_MapStatusScenario ==
  ms.pc = "done" =>
    /\ ms.input = <<"O", "u", "t", " ", "f", "o", "r", " ", "D", "e", "l", "i", "v", "e", "r", "y">>
       => ms.result = ORDER_STATUS_OUT_FOR_DELIVERY
    /\ ms.input = <<"O", "F", "D">> => ms.result = ORDER_STATUS_OUT_FOR_DELIVERY
    /\ ms.input = <<"w", "e", "i", "r", "d", "s", "t", "a", "t", "u", "s", "1", "2", "3">>
       => ms.result = ORDER_STATUS_PENDING

\* C29: every status an adapter's mapStatus returns is one of the internal
\* statuses pending, confirmed, picked_up, in_transit, out_for_delivery,
\* delivered, cancelled, rto.
C29_MapStatusStaysInClosedSet ==
  ms.pc = "done" => ms.result \in InternalStatusNames

---------------------------------------------------------------------------
(* Rate requests: OrderService.calculateRate called repeatedly with the     *)
(* same partner and weight                                                  *)

RateWeights == 1..MaxRateWeight

\* the first call with these inputs
RateRequest(partner, weight) ==
  /\ rq.pc = "off"
  /\ \E resp \in ThirdPartyRateOutcomes(partner) :
       rq' = [pc |-> "called", partner |-> partner, weight |-> weight,
              answers |-> <<calculateRate(partner, weight, resp)>>]
  /\ UNCHANGED <<wallet, orders, co, ship, wh, pk, tr, wc, ms, bk, tk, pay>>

\* a further call with the same inputs
RateRepeat ==
  /\ rq.pc = "called"
  /\ Len(rq.answers) < MaxRateCalls
  /\ \E resp \in ThirdPartyRateOutcomes(rq.partner) :
       rq' = [rq EXCEPT !.answers =
                Append(@, calculateRate(rq.partner, rq.weight, resp))]
  /\ UNCHANGED <<wallet, orders, co, ship, wh, pk, tr, wc, ms, bk, tk, pay>>

InitRate ==
  /\ wallet = EmptyWallet
  /\ orders = [o \in OrderIds |-> NoOrder]
  /\ co = [c \in OrderIds |-> IdleCo]
  /\ ship = [c \in OrderIds |-> IdleShip]
  /\ wh = <<>>
  /\ pk = IdlePk
  /\ tr = IdleTr
  /\ wc = <<>>
  /\ ms = IdleMs
  /\ rq = IdleRq
  /\ bk = IdleBk
  /\ tk = IdleTk
  /\ pay = IdlePay

NextRate ==
  \/ \E p \in DELIVERY_PARTNERS \cup PROVIDERS, w \in RateWeights : RateRequest(p, w)
  \/ RateRepeat

SpecRate == InitRate /\ [][NextRate]_vars

---------------------------------------------------------------------------
(* Claims on rate requests (SpecRate) *)

\* C10: when the provider rate call fails, calculateRate returns the
\* fallback total 50 + 10 x weight, so that any calls with the same partner
\* and weight during a provider outage return the same total.
C10_FallbackTotalDependsOnlyOnWeight ==
  rq.pc = "called" =>
    \A i, j \in DOMAIN rq.answers :
      rq.answers[i].fallback /\ rq.answers[j].fallback =>
        /\ rq.answers[i].totalAmount = 50 + 10 * rq.weight
        /\ rq.answers[i].totalAmount = rq.answers[j].totalAmount

\* two calls with the same inputs were both answered by the fallback
C10_Witness ==
  /\ rq.pc = "called"
  /\ Len(rq.answers) >= 2
  /\ rq.weight > 1
  /\ \A i \in DOMAIN rq.answers : rq.answers[i].fallback

---------------------------------------------------------------------------
(* Booking: one createShipment call of an adapter for one order, with the   *)
(* HTTP exchanges it makes. The adapters are called directly, as            *)
(* test-nimbuspost.js does; through ThirdPartyAPIService no partner reaches *)
(* one (see ThirdPartyShipOutcomes).                                        *)

\* the endpoints DelhiveryProvider.createShipment tries in order
DelhiveryEndpoints == 8

BookingAdapters == {"delhivery", "nimbuspost", "overseas_logistic"}

NodeEnvs == {"development", "production"}

\* what a POST may come to: a 2xx response carrying an AWB, a 2xx response
\* whose body reports an error, an HTTP error response, or no response at all
\* (status 0: timeout, connection refused)
HttpOk == [response |-> TRUE, status |-> 200, body |-> "awb"]
HttpRefused == [response |-> TRUE, status |-> 200, body |-> "error"]
HttpError(status) == [response |-> TRUE, status |-> status, body |-> "error"]
HttpNoResponse == [response |-> FALSE, status |-> 0, body |-> NULL]

PostOutcomes ==
  {HttpOk, HttpRefused, HttpError(404), HttpError(405), HttpError(401), HttpNoResponse}

IsSuccess(res) == res.response /\ res.status = 200

NewBooking(adapter, env) ==
  [pc |-> IF adapter = "delhivery" THEN "post" ELSE "token",
   adapter |-> adapter, env |-> env, endpoint |-> 1,
   posts |-> 0, acks |-> 0, postsAfterAck |-> 0, lastError |-> 0,
   awb |-> NULL, mock |-> FALSE, err |-> 0]

\* the adapter returned a shipment
BookingReturned(b, awb, mock) ==
  [b EXCEPT !.pc = "done", !.awb = awb, !.mock = mock]

\* BaseProvider.handleError: the status of an HTTP error response, else 500
handleError(b, status) ==
  [b EXCEPT !.pc = "failed",
            !.err = IF status # 0 THEN status ELSE HTTP_INTERNAL_SERVER_ERROR]

\* the catch of DelhiveryProvider.createShipment (lines 350-375)
DelhiveryCatch(b, status) ==
  IF b.env = "development" THEN BookingReturned(b, "MOCK", TRUE)
  ELSE handleError(b, status)

\* a POST was sent and answered (or not)
Posted(b, res) ==
  [b EXCEPT !.posts = @ + 1,
            !.postsAfterAck = IF b.acks > 0 THEN @ + 1 ELSE @,
            !.acks = IF IsSuccess(res) THEN @ + 1 ELSE @]

DelhiveryLoop_no_break(b, res) ==
  LET p == Posted(b, res)
  IN IF b.endpoint < DelhiveryEndpoints /\ (IsSuccess(res) \/ res.status \in {404, 405, 0})
       THEN [p EXCEPT !.endpoint = @ + 1,
                      !.lastError = IF IsSuccess(res) THEN @ ELSE res.status]
     ELSE IF p.acks > 0 THEN BookingReturned(p, "AWB", FALSE)
     ELSE DelhiveryCatch(p, res.status)

\* one turn of the endpoint loop of DelhiveryProvider.createShipment (lines
\* 283-307) and, when the loop ends, the rest of the method: success breaks,
\* an HTTP error other than 404 and 405 breaks, anything else moves on to the
\* next endpoint; without a response the last error is thrown
DelhiveryLoop(b, res) ==
  LET p == Posted(b, res)
  IN IF IsSuccess(res)
       THEN BookingReturned(p, IF res.body = "awb" THEN "AWB" ELSE NULL, FALSE)
     ELSE IF res.response /\ res.status \notin {404, 405}
       THEN DelhiveryCatch(p, res.status)
     ELSE IF b.endpoint < DelhiveryEndpoints
       THEN [p EXCEPT !.endpoint = @ + 1, !.lastError = res.status]
     ELSE DelhiveryCatch(p, res.status)

\* NimbusPostProvider.createShipment after its POST (lines 234-270): an
\* error body throws an AppError, which handleError turns into a 500
NimbusAfterPost(b, res) ==
  LET p == Posted(b, res)
  IN IF IsSuccess(res) /\ res.body = "awb" THEN BookingReturned(p, "AWB", FALSE)
     ELSE IF IsSuccess(res) THEN handleError(p, 0)
     ELSE handleError(p, res.status)

\* OverseasLogisticProvider.createShipment after its POST (lines 323-386)
OverseasAfterPost(b, res) ==
  LET p == Posted(b, res)
  IN IF IsSuccess(res) /\ res.body = "awb" THEN BookingReturned(p, "AWB", FALSE)
     ELSE IF b.env = "development" THEN BookingReturned(p, "MOCK", TRUE)
     ELSE IF IsSuccess(res) THEN handleError(p, 0)
     ELSE handleError(p, res.status)

\* the call starts
BookingStart(adapter, env) ==
  /\ bk.pc = "off"
  /\ bk' = NewBooking(adapter, env)
  /\ UNCHANGED <<wallet, orders, co, ship, wh, pk, tr, wc, ms, rq, tk, pay>>

\* getAccessToken of the NimbusPost and Overseas adapters, inside the try of
\* createShipment
BookingToken(ok) ==
  /\ bk.pc = "token"
  /\ bk' = IF ok THEN [bk EXCEPT !.pc = "post"]
           ELSE IF bk.adapter = "overseas_logistic" /\ bk.env = "development"
             THEN BookingReturned(bk, "MOCK", TRUE)
           ELSE handleError(bk, 0)
  /\ UNCHANGED <<wallet, orders, co, ship, wh, pk, tr, wc, ms, rq, tk, pay>>

\* client.post and what the adapter does with its outcome
BookingPost(res) ==
  /\ bk.pc = "post"
  /\ bk' = CASE bk.adapter = "delhivery" -> DelhiveryLoop(bk, res)
             [] bk.adapter = "nimbuspost" -> NimbusAfterPost(bk, res)
             [] bk.adapter = "overseas_logistic" -> OverseasAfterPost(bk, res)
  /\ UNCHANGED <<wallet, orders, co, ship, wh, pk, tr, wc, ms, rq, tk, pay>>

InitBooking ==
  /\ wallet = EmptyWallet
  /\ orders = [o \in OrderIds |-> NoOrder]
  /\ co = [c \in OrderIds |-> IdleCo]
  /\ ship = [c \in OrderIds |-> IdleShip]
  /\ wh = <<>>
  /\ pk = IdlePk
  /\ tr = IdleTr
  /\ wc = <<>>
  /\ ms = IdleMs
  /\ rq = IdleRq
  /\ bk = IdleBk
  /\ tk = IdleTk
  /\ pay = IdlePay

NextBooking ==
  \/ \E a \in BookingAdapters, e \in NodeEnvs : BookingStart(a, e)
  \/ \E ok \in BOOLEAN : BookingToken(ok)
  \/ \E res \in PostOutcomes : BookingPost(res)

SpecBooking == InitBooking /\ [][NextBooking]_vars

---------------------------------------------------------------------------
(* Claims on booking (SpecBooking) *)

\* C5: for one order, an adapter's createShipment receives at most one
\* successful partner acknowledgment, and sends no further request once it
\* has one, also when it tries again after a failed request.
C5_AtMostOneAcknowledgedBooking ==
  bk.pc # "off" => bk.acks <= 1 /\ bk.postsAfterAck = 0

\* the adapter was acknowledged on a request it sent after a failed one
C5_Witness ==
  /\ bk.pc = "done"
  /\ bk.acks = 1
  /\ bk.posts > 1
  /\ ~bk.mock

---------------------------------------------------------------------------
(* Wallet recharge: WalletController.verifyPayment requests for one Payment *)
(* document of type wallet_recharge, repeated and concurrent                *)

VerifyCallIds == 1..MaxVerifyCalls

IdleVc == [pc |-> "idle", newStatus |-> NULL, wbal |-> 0, err |-> 0]

\* the Payment created by createRazorpayOrder: status pending
NewPayment(amount) ==
  [pc |-> "on", status |-> "pending", amount |-> amount,
   calls |-> [r \in VerifyCallIds |-> IdleVc]]

\* verifyAndCompletePayment up to its save: Payment.findById, the early
\* return of a payment found completed (the controller then goes on to the
\* credit), the signature check
VerifyFind(r, validSignature) ==
  /\ pay.pc = "on"
  /\ pay.calls[r].pc = "idle"
  /\ IF r = 1 THEN TRUE ELSE pay.calls[r - 1].pc # "idle"
  /\ pay' = IF pay.status = "completed"
              THEN [pay EXCEPT !.calls[r].pc = "credit_read"]
            ELSE [pay EXCEPT !.calls[r].pc = "save",
                             !.calls[r].newStatus =
                                IF validSignature THEN "completed" ELSE "failed"]
  /\ UNCHANGED <<wallet, orders, co, ship, wh, pk, tr, wc, ms, rq, bk, tk>>

\* payment.save() with status completed, after which the controller goes on
\* to the credit, or with status failed, after which the request is
\* answered 400
VerifySave(r) ==
  /\ pay.pc = "on"
  /\ pay.calls[r].pc = "save"
  /\ pay' = [pay EXCEPT
               !.status = pay.calls[r].newStatus,
               !.calls[r] = IF pay.calls[r].newStatus = "completed"
                              THEN [@ EXCEPT !.pc = "credit_read"]
                              ELSE [IdleVc EXCEPT !.pc = "done",
                                                  !.err = HTTP_BAD_REQUEST]]
  /\ UNCHANGED <<wallet, orders, co, ship, wh, pk, tr, wc, ms, rq, bk, tk>>

\* walletService.addMoney called by the controller: the wallet is read
VerifyCreditRead(r) ==
  /\ pay.pc = "on"
  /\ pay.calls[r].pc = "credit_read"
  /\ pay' = [pay EXCEPT !.calls[r].pc = "credit_save",
                        !.calls[r].wbal = wallet.balance]
  /\ UNCHANGED <<wallet, orders, co, ship, wh, pk, tr, wc, ms, rq, bk, tk>>

\* addTransaction('credit', payment.amount) on the wallet read, and its save
VerifyCreditSave(r) ==
  /\ pay.pc = "on"
  /\ pay.calls[r].pc = "credit_save"
  /\ wallet' = SaveTransaction(wallet, [balance |-> pay.calls[r].wbal], "credit",
                               pay.amount, NULL)
  /\ pay' = [pay EXCEPT !.calls[r] = [IdleVc EXCEPT !.pc = "done"]]
  /\ UNCHANGED <<orders, co, ship, wh, pk, tr, wc, ms, rq, bk, tk>>

InitPay ==
  /\ wallet = EmptyWallet
  /\ orders = [o \in OrderIds |-> NoOrder]
  /\ co = [c \in OrderIds |-> IdleCo]
  /\ ship = [c \in OrderIds |-> IdleShip]
  /\ wh = <<>>
  /\ pk = IdlePk
  /\ tr = IdleTr
  /\ wc = <<>>
  /\ ms = IdleMs
  /\ rq = IdleRq
  /\ bk = IdleBk
  /\ tk = IdleTk
  /\ \E a \in {x \in Amounts : x > 0} : pay = NewPayment(a)

NextPay ==
  \/ \E r \in VerifyCallIds, v \in BOOLEAN : VerifyFind(r, v)
  \/ \E r \in VerifyCallIds : VerifySave(r)
  \/ \E r \in VerifyCallIds : VerifyCreditRead(r)
  \/ \E r \in VerifyCallIds : VerifyCreditSave(r)

SpecPay == InitPay /\ [][NextPay]_vars

---------------------------------------------------------------------------
(* Token cache: getAccessToken of the NimbusPost and Overseas adapters, with *)
(* concurrent callers on one adapter instance                               *)

TokenAdapters == {"nimbuspost", "overseas_logistic"}

TokenCallers == 1..MaxTokenCallers

\* the authentication methods OverseasLogisticProvider.getAccessToken tries
\* in turn; NimbusPost has one login request
AuthMethods(adapter) == IF adapter = "overseas_logistic" THEN 3 ELSE 1

\* time is counted in units of five minutes
FiveMinutes == 1

\* the buffer the cache check subtracts from the expiry: 5 * 60 * 1000 ms in
\* the Overseas adapter, none in the NimbusPost adapter
TokenBuffer(adapter) == IF adapter = "overseas_logistic" THEN FiveMinutes ELSE 0

\* 23 * 60 * 60 * 1000 ms after the login, in units of five minutes
NimbusTokenLifetime == 276

\* tokenData.expires_in || 3600 seconds, in units of five minutes
DefaultExpiresIn == 12

\* expires_in of a token response (0: the field is absent)
ExpiresInInputs == {0, 1, 24}

\* the expiry stored with a token obtained at time `now`
NewExpiry(adapter, now, expiresIn) ==
  IF adapter = "overseas_logistic"
    THEN now + (IF expiresIn # 0 THEN expiresIn ELSE DefaultExpiresIn)
    ELSE now + NimbusTokenLifetime

\* the adapter after construction: no token cached (token FALSE, expiry 0 for
\* null), the clock at 0
NewTokenState(adapter) ==
  [pc |-> "on", adapter |-> adapter, token |-> FALSE, expiry |-> 0,
   now |-> 0, ticks |-> 0,
   requests |-> 0, inflight |-> 0, redundant |-> 0,
   callers |-> [c \in TokenCallers |-> [pc |-> "idle", method |-> 0]]]

CacheValid_no_buffer(t) == t.token /\ t.expiry # 0 /\ t.now < t.expiry

\* the cache check at the top of getAccessToken
CacheValid(t) ==
  t.token /\ t.expiry # 0 /\ t.now < t.expiry - TokenBuffer(t.adapter)

\* a token request leaves for the partner; it is redundant when another one
\* is in flight or a token that passes the cache check is cached
TokenRequestSent(t) ==
  [t EXCEPT !.requests = @ + 1, !.inflight = @ + 1,
            !.redundant = IF t.inflight > 0 THEN @ + 1
                          ELSE IF CacheValid(t) THEN @ + 1 ELSE @]

\* a caller enters getAccessToken: the cached token, or the first request
GetAccessToken(c) ==
  /\ tk.pc = "on"
  /\ tk.callers[c].pc = "idle"
  /\ IF c = 1 THEN TRUE ELSE tk.callers[c - 1].pc # "idle"
  /\ tk' = IF CacheValid(tk)
             THEN [tk EXCEPT !.callers[c].pc = "done"]
             ELSE [TokenRequestSent(tk) EXCEPT !.callers[c] =
                                                 [pc |-> "await", method |-> 1]]
  /\ UNCHANGED <<wallet, orders, co, ship, wh, pk, tr, wc, ms, rq, bk, pay>>

\* the token request of a caller is answered: the token and its expiry are
\* cached, or the next authentication method is tried, or the call fails
TokenSettle(c, ok, expiresIn) ==
  /\ tk.pc = "on"
  /\ tk.callers[c].pc = "await"
  /\ LET t == [tk EXCEPT !.inflight = @ - 1]
     IN tk' = IF ok
                THEN [t EXCEPT !.token = TRUE,
                               !.expiry = NewExpiry(tk.adapter, tk.now, expiresIn),
                               !.callers[c].pc = "done"]
              ELSE IF tk.callers[c].method < AuthMethods(tk.adapter)
                THEN [TokenRequestSent(t) EXCEPT !.callers[c].method = @ + 1]
              ELSE [t EXCEPT !.callers[c].pc = "failed"]
  /\ UNCHANGED <<wallet, orders, co, ship, wh, pk, tr, wc, ms, rq, bk, pay>>

\* the steps by which the clock advances
TickSteps == {1, 10, 275}

\* time passes (Date.now() grows)
TokenTick(d) ==
  /\ tk.pc = "on"
  /\ tk.ticks < MaxTicks
  /\ tk' = [tk EXCEPT !.now = @ + d, !.ticks = @ + 1]
  /\ UNCHANGED <<wallet, orders, co, ship, wh, pk, tr, wc, ms, rq, bk, pay>>

InitToken ==
  /\ wallet = EmptyWallet
  /\ orders = [o \in OrderIds |-> NoOrder]
  /\ co = [c \in OrderIds |-> IdleCo]
  /\ ship = [c \in OrderIds |-> IdleShip]
  /\ wh = <<>>
  /\ pk = IdlePk
  /\ tr = IdleTr
  /\ wc = <<>>
  /\ ms = IdleMs
  /\ rq = IdleRq
  /\ bk = IdleBk
  /\ \E a \in TokenAdapters : tk = NewTokenState(a)
  /\ pay = IdlePay

NextToken ==
  \/ \E c \in TokenCallers : GetAccessToken(c)
  \/ \E c \in TokenCallers, ok \in BOOLEAN, e \in ExpiresInInputs :
        TokenSettle(c, ok, e)
  \/ \E d \in TickSteps : TokenTick(d)

SpecToken == InitToken /\ [][NextToken]_vars

---------------------------------------------------------------------------
(* Claims on the token cache (SpecToken) *)

\* C14: concurrent getAccessToken callers of an adapter without a fresh
\* token cause at most one token request at a time: no token request is
\* issued while another is in flight, or once a fresh token is cached.
C14_NoDuplicateTokenRequests ==
  tk.pc = "on" => tk.inflight <= 1 /\ tk.redundant = 0

C30_ValidPartnerHasProvider ==
  rq.pc = "called" /\ rq.partner \in DELIVERY_PARTNERS
  => /\ hasProvider(rq.partner)
     /\ ProviderError(HTTP_NOT_IMPLEMENTED) \notin ThirdPartyRateOutcomes(rq.partner)
     /\ ShipFailure(HTTP_NOT_IMPLEMENTED) \notin ThirdPartyShipOutcomes(rq.partner)
     /\ TrackFailure(HTTP_NOT_IMPLEMENTED) \notin ThirdPartyTrackOutcomes(rq.partner)

---------------------------------------------------------------------------
(* Claims on the wallet recharge (SpecPay) *)

\* C26: a verified top-up payment credits the wallet at most once: however
\* many verifyPayment requests are made for the payment, one after another
\* or at once, the wallet log holds at most one credit transaction.
C26_PaymentCreditedAtMostOnce ==
  pay.pc = "on" =>
    Cardinality({i \in DOMAIN wallet.transactions :
                   wallet.transactions[i].type = "credit"}) <= 1

=============================================================================
